---- MODULE Spec2Model ----
(***************************************************************************)
(* Model of the investigation loop of agent/main.py (iwanhae/kabinet).     *)
(*                                                                         *)
(* The program is single-threaded.  Its state is the InvestigationState    *)
(* object (turn, hypothesis, messages), the position of main() and the     *)
(* request that is in flight to one of the two external services.  Every   *)
(* action is the code that runs between two blocking calls: input(),       *)
(* client.chat.completions.create() and requests.post().                   *)
(*                                                                         *)
(* Strings the code only passes along (requests, hypotheses, analyses,     *)
(* sql, timestamps) are drawn from small sets.  The plan's "thought" is    *)
(* only printed and is left out.  The oracle is asked for                  *)
(* response_format json_object (main.py:214), so a response either fails   *)
(* to parse or parses to an object.                                        *)
(***************************************************************************)
EXTENDS Integers, Sequences, FiniteSets, TLC

\* ------------------------------------------------------------------ bounds
\* InvestigationState.max_turns (main.py:167, default 7), kept small here.
MaxTurns == 2

\* ---------------------------------------------------------------- constants
Absent == "<absent>"

SYSTEM_PROMPT == "SYSTEM_PROMPT"
InitialHypothesis == "Initial hypothesis pending."
InvalidJsonAnalysis == "Error: The AI returned a response that was not valid JSON."
NoValidQueryObservation == "AI did not provide a valid query. Ending investigation."
NoFurtherAction == "No further action taken."
MaxTurnsInstruction == "You have reached the maximum number of turns. Please summarize your findings and provide a final analysis."
NoSummaryProvided == "No summary provided."
QueryExecutedPrefix == "Query executed. Here is a summary of the result:\n"
QueryFailedPrefix == "Query failed with error: "
NoResultsSummary == "Query returned no results (an empty list: [])."
ApiCallFailedPrefix == "API call failed: "
NotValidJsonError == "API response is not valid JSON."

\* ------------------------------------------------------------- input domains
Requests == {"cluster unstable", "pods pending"}
UserInputs == Requests \cup {"exit", "EXIT"}
Hypotheses == {"h1", "h2"}
Analyses == {"fa1", "fa2"}
Times == {"t1", "t2"}
Clock == {"now1", "now2"}

\* The values the "query" member of a plan can take.  kind "absent": no
\* such key (or null); "nondict": a truthy value that is not an object.
QAbsent == [kind |-> "absent", sql |-> Absent, start |-> Absent, end |-> Absent]
QNonDict == [kind |-> "nondict", sql |-> Absent, start |-> Absent, end |-> Absent]
QDict(sql, start, end) == [kind |-> "dict", sql |-> sql, start |-> start, end |-> end]
Queries ==
    { QAbsent, QNonDict,
      QDict(Absent, Absent, Absent),
      QDict(Absent, "t1", "t2"),
      QDict("", "t1", "t2"),
      QDict("q1", Absent, Absent),
      QDict("q1", Absent, "t2"),
      QDict("q1", "t1", Absent),
      QDict("q1", "t1", "t2"),
      QDict("q1", "t2", "t1") }

\* The plans the oracle can answer with.  Next to a final_analysis the
\* query is absent or well-formed; without one it takes every value.
Plans ==
    { p \in [hypothesis : Hypotheses \cup {Absent},
             final_analysis : Analyses \cup {Absent},
             query : Queries] :
        p.final_analysis # Absent => p.query \in {QAbsent, QDict("q1", "t1", "t2")} }

\* What completion.choices[0].message.content can be: text that parses to
\* a plan object, written in json.dumps' own layout or in another one, or
\* text that does not parse.
Layouts == {"dumps", "other"}
RawResponses ==
    [parses : {TRUE}, layout : Layouts, plan : Plans]
    \cup { [parses |-> FALSE, layout |-> "other"] }

\* The answers to the forced call.  Line 292 reads final_analysis only, so
\* the query next to it is left absent.
FinalResponses ==
    { r \in RawResponses : r.parses => r.plan.query = QAbsent }

\* Rows of a result set, named by their content.
RowSets == { <<>>, <<"rowA", "rowB">> }
Columns(row) == IF row = "rowA" THEN <<"reason", "count">> ELSE <<"reason">>

\* What requests.post / raise_for_status / response.json can do.  A body
\* that is not JSON makes response.json() raise requests' JSONDecodeError
\* (a RequestException) or the standard library's, depending on the
\* installed requests.
QueryOutcomes ==
    [kind : {"ok"}, results : RowSets]
    \cup { [kind |-> "ok_no_results_key"],
           [kind |-> "transport_error"],
           [kind |-> "http_error"],
           [kind |-> "non_json_body", raised |-> "requests.JSONDecodeError"],
           [kind |-> "non_json_body", raised |-> "json.JSONDecodeError"] }

\* ------------------------------------------------------------------- state
VARIABLES
    pc,           \* position of main(): input, loop, oracle, query,
                  \* final_oracle, crashed, exited
    user_request, \* InvestigationState.user_request
    turn,         \* InvestigationState.turn
    hypothesis,   \* InvestigationState.hypothesis
    messages,     \* InvestigationState.messages
    sent,         \* messages= argument of the oracle call in flight
    payload,      \* json= argument of the query request in flight
    \* history of the current investigation
    lastRaw,      \* the oracle response behind the plan just stored
    plans,        \* plans get_ai_plan returned inside the loop
    finalPlans,   \* plan get_ai_plan returned for the forced call
    executed,     \* payloads posted to the event query service
    loopCalls,    \* oracle calls made inside the loop
    finalCalls,   \* forced summarization calls made
    surfaced,     \* final texts printed to the user
    outcome,      \* running, conclude, abort, summary, crash
    answers,      \* what each posted query came back with: failed or
                  \* not, and how many rows
    earlier       \* the request served before this one, known until the
                  \* new state is first used

vars == <<pc, user_request, turn, hypothesis, messages, sent, payload,
          lastRaw, plans, finalPlans, executed, loopCalls, finalCalls,
          surfaced, outcome, answers, earlier>>

state_vars == <<user_request, turn, hypothesis, messages>>
history_vars == <<lastRaw, plans, finalPlans, executed, loopCalls, finalCalls,
                  surfaced, outcome, answers, earlier>>

\* ------------------------------------------------------ InvestigationState
Message(role, content) == [role |-> role, content |-> content]
TextContent(text) == [kind |-> "text", text |-> text]

default_messages_Shared(old) == old

\* messages: list = field(default_factory=list): every instance gets a new
\* empty list, whatever the list of the instance before it (old) holds.
default_messages(old) == <<>>

\* __post_init__ appends the instruction and the request to self.messages.
post_init(msgs, request) ==
    msgs \o << Message("system", TextContent(SYSTEM_PROMPT)),
               Message("user", TextContent(request)) >>

\* json.dumps(response): the plan in json.dumps' layout.
json_dumps(plan) == [kind |-> "json", layout |-> "dumps", plan |-> plan]

add_ai_response_Overwrites(msgs, response) ==
    SubSeq(msgs, 1, Len(msgs) - 1)
        \o << [role |-> "assistant",
               content |-> [kind |-> "json", layout |-> "dumps", plan |-> response]] >>

add_ai_response(msgs, response) ==
    Append(msgs, Message("assistant", json_dumps(response)))

add_system_observation_NotStored(msgs, content) == msgs

add_system_observation(msgs, content) ==
    Append(msgs, Message("system", content))

is_complete_OffByOne(t) == t > MaxTurns

is_complete(t) == t >= MaxTurns

next_turn_Twice(t) == t + 2

\* state.turn += 1
next_turn(t) == t + 1

\* -------------------------------------------------------------- get_ai_plan
TimeMessage(now) ==
    Message("system", [kind |-> "time", text |-> "The current UTC time is ", now |-> now])

timed_messages(msgs, now) == msgs \o << TimeMessage(now) >>

InvalidJsonPlan ==
    [hypothesis |-> Absent, final_analysis |-> InvalidJsonAnalysis, query |-> QAbsent]

json_loads_NoAnalysis(raw) ==
    IF raw.parses THEN raw.plan
    ELSE [hypothesis |-> Absent, final_analysis |-> Absent, query |-> QAbsent]

\* json.loads(response_content), with the JSONDecodeError handler.
json_loads(raw) == IF raw.parses THEN raw.plan ELSE InvalidJsonPlan

\* ------------------------------------------------------------ execute_query
NoPayload == [start |-> Absent, end |-> Absent, query |-> Absent]
Payload_Swapped(query, start, end) == [start |-> end, end |-> start, query |-> query]

Payload(query, start, end) == [start |-> start, end |-> end, query |-> query]

ErrorResult(text, detail) ==
    [has_error |-> TRUE, error |-> [text |-> text, detail |-> detail],
     has_results |-> FALSE, results |-> <<>>]

\* The dict execute_query returns for each thing the service can do.  An
\* HTTPError carries a Response whose truth value is response.ok, so for an
\* error status "e.response.text if e.response else str(e)" is str(e); the
\* text of an exception is one value, "str(e)".
execute_query(o) ==
    CASE o.kind = "ok" ->
            [has_error |-> FALSE, error |-> [text |-> "", detail |-> ""],
             has_results |-> TRUE, results |-> o.results]
      [] o.kind = "ok_no_results_key" ->
            [has_error |-> FALSE, error |-> [text |-> "", detail |-> ""],
             has_results |-> FALSE, results |-> <<>>]
      [] o.kind = "transport_error" ->
            ErrorResult(ApiCallFailedPrefix, "str(e)")
      [] o.kind = "http_error" ->
            ErrorResult(ApiCallFailedPrefix, "str(e)")
      [] o.kind = "non_json_body" ->
            IF o.raised = "requests.JSONDecodeError"
            THEN ErrorResult(ApiCallFailedPrefix, "str(e)")
            ELSE ErrorResult(NotValidJsonError, "")

\* --------------------------------------------------------- summarize_result
summarize_result_ErrorIgnored(result) ==
    LET results_list == IF result.has_results THEN result.results ELSE <<>>
    IN  IF results_list = <<>>
        THEN [kind |-> "empty", text |-> NoResultsSummary]
        ELSE [kind |-> "rows", count |-> Len(results_list),
              columns |-> Columns(results_list[1]), first |-> results_list[1]]

summarize_result_EmptyEnumerated(result) ==
    LET results_list == IF result.has_results THEN result.results ELSE <<>>
    IN  IF result.has_error
        THEN [kind |-> "failed", text |-> QueryFailedPrefix, error |-> result.error]
        ELSE [kind |-> "rows", count |-> Len(results_list),
              columns |-> <<>>, first |-> "" ]

\* results_list is result.get("results", []).
summarize_result(result) ==
    LET results_list == IF result.has_results THEN result.results ELSE <<>>
    IN  IF result.has_error
        THEN [kind |-> "failed", text |-> QueryFailedPrefix, error |-> result.error]
        ELSE IF results_list = <<>>
        THEN [kind |-> "empty", text |-> NoResultsSummary]
        ELSE [kind |-> "rows", count |-> Len(results_list),
              columns |-> Columns(results_list[1]), first |-> results_list[1]]

Observation(summary) ==
    [kind |-> "observation", text |-> QueryExecutedPrefix, summary |-> summary]

\* --------------------------------------------------------------------- main
final_summary_NoDefault(final_plan) == final_plan.final_analysis

\* final_plan.get('final_analysis', 'No summary provided.')
final_summary(final_plan) ==
    IF final_plan.final_analysis # Absent
    THEN final_plan.final_analysis ELSE NoSummaryProvided

Lower(u) == IF u \in {"exit", "EXIT"} THEN "exit" ELSE u

Surfaced(label, text) == [label |-> label, text |-> text]

Init ==
    /\ pc = "input"
    /\ user_request = Absent
    /\ turn = 0
    /\ hypothesis = InitialHypothesis
    /\ messages = <<>>
    /\ sent = <<>>
    /\ payload = NoPayload
    /\ lastRaw = <<>>
    /\ plans = <<>>
    /\ finalPlans = <<>>
    /\ executed = <<>>
    /\ loopCalls = 0
    /\ finalCalls = 0
    /\ surfaced = <<>>
    /\ outcome = "none"
    /\ answers = <<>>
    /\ earlier = Absent

\* main.py:250-255: a request other than exit creates a fresh state.
StartInvestigation ==
    /\ pc = "input"
    /\ \E u \in UserInputs :
        /\ Lower(u) # "exit"
        /\ user_request' = u
        /\ turn' = 0
        /\ hypothesis' = InitialHypothesis
        /\ messages' = post_init(default_messages(messages), u)
    /\ pc' = "loop"
    /\ sent' = <<>>
    /\ payload' = NoPayload
    /\ lastRaw' = <<>>
    /\ plans' = <<>>
    /\ finalPlans' = <<>>
    /\ executed' = <<>>
    /\ loopCalls' = 0
    /\ finalCalls' = 0
    /\ surfaced' = <<>>
    /\ outcome' = "running"
    /\ answers' = <<>>
    /\ earlier' = user_request

\* main.py:251-253: the process ends and its state with it.
Exit ==
    /\ pc = "input"
    /\ \E u \in UserInputs : Lower(u) = "exit"
    /\ pc' = "exited"
    /\ user_request' = Absent
    /\ turn' = 0
    /\ hypothesis' = InitialHypothesis
    /\ messages' = <<>>
    /\ sent' = <<>>
    /\ payload' = NoPayload
    /\ lastRaw' = <<>>
    /\ plans' = <<>>
    /\ finalPlans' = <<>>
    /\ executed' = <<>>
    /\ loopCalls' = 0
    /\ finalCalls' = 0
    /\ surfaced' = <<>>
    /\ outcome' = "none"
    /\ answers' = <<>>
    /\ earlier' = Absent

\* main.py:257-261 and 205-215: one more turn, the oracle is called.
BeginTurn ==
    /\ pc = "loop"
    /\ ~ is_complete(turn)
    /\ turn' = next_turn(turn)
    /\ \E now \in Clock : sent' = timed_messages(messages, now)
    /\ loopCalls' = loopCalls + 1
    /\ lastRaw' = <<>>
    /\ earlier' = Absent
    /\ pc' = "oracle"
    /\ UNCHANGED <<user_request, hypothesis, messages, payload, plans,
                   finalPlans, executed, finalCalls, surfaced, outcome, answers>>

no_valid_query_SqlUnchecked(query_info) ==
    \/ query_info.kind = "absent"
    \/ query_info = QDict(Absent, Absent, Absent)

\* not query_info or not query_info.get("sql"), for an absent query or an
\* object.
no_valid_query(query_info) ==
    \/ query_info.kind = "absent"
    \/ query_info = QDict(Absent, Absent, Absent)
    \/ query_info.sql \in {Absent, ""}

new_hypothesis_Overwrites(ai_plan, current) == ai_plan.hypothesis

\* ai_plan.get('hypothesis', state.hypothesis)
new_hypothesis(ai_plan, current) ==
    IF ai_plan.hypothesis # Absent THEN ai_plan.hypothesis ELSE current

has_final_analysis_QueryFirst(ai_plan) ==
    ai_plan.final_analysis # Absent /\ ai_plan.query.kind = "absent"

\* "final_analysis" in ai_plan
has_final_analysis(ai_plan) == ai_plan.final_analysis # Absent

after_break_ElseRuns == "loop"

\* Where main() is after a break at 270 or 276: the else clause of the
\* while (288-292) is skipped, the next statement is input() at 250.
after_break == "input"

\* main.py:262-282 after get_ai_plan returned ai_plan.
HandlePlan(raw, ai_plan) ==
    LET msgs1 == add_ai_response(messages, ai_plan)
        query_info == ai_plan.query
    IN  /\ hypothesis' = new_hypothesis(ai_plan, hypothesis)
        /\ lastRaw' = << raw >>
        /\ plans' = Append(plans, ai_plan)
        /\ sent' = <<>>
        /\ UNCHANGED <<user_request, turn, finalPlans, loopCalls, finalCalls,
                       answers, earlier>>
        /\ IF has_final_analysis(ai_plan)
           THEN \* 268-270
                /\ messages' = msgs1
                /\ surfaced' = Append(surfaced, Surfaced("Final Analysis", ai_plan.final_analysis))
                /\ outcome' = "conclude"
                /\ pc' = after_break
                /\ UNCHANGED <<payload, executed>>
           ELSE IF query_info.kind = "nondict"
           THEN \* 273: a str or list has no .get, AttributeError
                /\ messages' = msgs1
                /\ outcome' = "crash"
                /\ pc' = "crashed"
                /\ UNCHANGED <<payload, executed, surfaced>>
           ELSE IF no_valid_query(query_info)
           THEN \* 273-276
                /\ messages' = add_system_observation(msgs1, TextContent(NoValidQueryObservation))
                /\ surfaced' = Append(surfaced, Surfaced("Final Analysis", NoFurtherAction))
                /\ outcome' = "abort"
                /\ pc' = after_break
                /\ UNCHANGED <<payload, executed>>
           ELSE IF query_info.start = Absent \/ query_info.end = Absent
           THEN \* 280-281: query_info["start"], query_info["end"], KeyError
                /\ messages' = msgs1
                /\ outcome' = "crash"
                /\ pc' = "crashed"
                /\ UNCHANGED <<payload, executed, surfaced>>
           ELSE \* 278-282 and 191-192
                /\ messages' = msgs1
                /\ payload' = Payload(query_info.sql, query_info.start, query_info.end)
                /\ executed' = Append(executed, payload')
                /\ pc' = "query"
                /\ UNCHANGED <<surfaced, outcome>>

\* main.py:217-222 and 262-282: the oracle answers a call made in the loop.
ReceivePlan ==
    /\ pc = "oracle"
    /\ \E raw \in RawResponses : HandlePlan(raw, json_loads(raw))

\* main.py:192-199 and 284-286: the query service answers.
QueryReturns ==
    /\ pc = "query"
    /\ \E o \in QueryOutcomes :
         LET query_result == execute_query(o)
             result_summary == summarize_result(query_result)
         IN  /\ messages' = add_system_observation(messages, Observation(result_summary))
             /\ answers' = Append(answers,
                    [failed |-> o.kind \notin {"ok", "ok_no_results_key"},
                     rows |-> IF o.kind = "ok" THEN Len(o.results) ELSE 0])
    /\ payload' = NoPayload
    /\ lastRaw' = <<>>
    /\ pc' = "loop"
    /\ UNCHANGED <<user_request, turn, hypothesis, sent, plans, finalPlans,
                   executed, loopCalls, finalCalls, surfaced, outcome, earlier>>

\* main.py:288-291 and 205-215: the budget is spent, the forced call.
ForcedSummary ==
    /\ pc = "loop"
    /\ is_complete(turn)
    /\ messages' = add_system_observation(messages, TextContent(MaxTurnsInstruction))
    /\ \E now \in Clock : sent' = timed_messages(messages', now)
    /\ finalCalls' = finalCalls + 1
    /\ lastRaw' = <<>>
    /\ pc' = "final_oracle"
    /\ UNCHANGED <<user_request, turn, hypothesis, payload, plans, finalPlans,
                   executed, loopCalls, surfaced, outcome, answers, earlier>>

\* main.py:217-222 and 292: the oracle answers the forced call.
ReceiveFinalPlan ==
    /\ pc = "final_oracle"
    /\ \E raw \in FinalResponses :
         LET final_plan == json_loads(raw)
         IN  /\ finalPlans' = Append(finalPlans, final_plan)
             /\ surfaced' = Append(surfaced,
                    Surfaced("Final Summary", final_summary(final_plan)))
    /\ sent' = <<>>
    /\ outcome' = "summary"
    /\ pc' = "input"
    /\ UNCHANGED <<state_vars, payload, lastRaw, plans, executed, loopCalls,
                   finalCalls, answers, earlier>>

Next ==
    \/ StartInvestigation
    \/ Exit
    \/ BeginTurn
    \/ ReceivePlan
    \/ QueryReturns
    \/ ForcedSummary
    \/ ReceiveFinalPlan

Spec == Init /\ [][Next]_vars

\* The code between two blocking calls runs on, and every call to the
\* oracle and to the query service returns.  The user need not type.
FairSpec ==
    /\ Spec
    /\ WF_vars(BeginTurn)
    /\ WF_vars(ReceivePlan)
    /\ WF_vars(QueryReturns)
    /\ WF_vars(ForcedSummary)
    /\ WF_vars(ReceiveFinalPlan)

TypeOK ==
    /\ pc \in {"input", "loop", "oracle", "query", "final_oracle", "crashed", "exited"}
    /\ turn \in 0..MaxTurns
    /\ hypothesis \in Hypotheses \cup {InitialHypothesis}
    /\ outcome \in {"none", "running", "conclude", "abort", "summary", "crash"}

\* ================================================================ properties
Last(seq) == seq[Len(seq)]

IsPrefix(a, b) == Len(a) <= Len(b) /\ SubSeq(b, 1, Len(a)) = a

\* A continuation plan: a query whose sql is non-empty and no final_analysis.
IsContinuation(p) ==
    /\ p.final_analysis = Absent
    /\ p.query.kind = "dict"
    /\ p.query.sql \notin {Absent, ""}

\* A concluding plan: one with a final_analysis.
IsConcluding(p) == p.final_analysis # Absent

\* Neither a final_analysis nor a usable query: the query is absent, empty,
\* or an object without a non-empty sql.
IsUnusable(p) ==
    /\ p.final_analysis = Absent
    /\ \/ p.query.kind = "absent"
       \/ (p.query.kind = "dict" /\ p.query.sql \in {Absent, ""})

NumContinuations == Cardinality({ i \in 1..Len(plans) : IsContinuation(plans[i]) })

TimeIndex(t) == IF t = "t1" THEN 1 ELSE 2

\* C1: an investigation that received k <= max_turns continuation plans and
\* then a concluding plan has executed exactly k queries, and the text it
\* surfaces is that plan's final_analysis, unchanged; for k = max_turns the
\* concluding plan is the answer to the forced call.
C1_KQueriesThenVerbatim ==
    /\ Len(executed) = NumContinuations
    /\ (outcome = "conclude" =>
            /\ IsConcluding(Last(plans))
            /\ surfaced = << [label |-> "Final Analysis",
                              text |-> Last(plans).final_analysis] >>)
    /\ (outcome = "summary" /\ IsConcluding(finalPlans[1]) =>
            /\ Len(executed) = MaxTurns
            /\ surfaced = << [label |-> "Final Summary",
                              text |-> finalPlans[1].final_analysis] >>)

\* C2: when the turn budget is spent without a concluding plan, the
\* 'maximum number of turns' instruction is appended and exactly one forced
\* oracle call is made; it is not looped again, and the user gets its
\* final_analysis if it has one, otherwise 'No summary provided.'.
C2_ForcedSummaryOnce ==
    /\ finalCalls <= 1
    /\ (finalCalls = 1 <=>
            /\ Len(executed) = MaxTurns
            /\ pc \in {"final_oracle", "input"})
    /\ (pc = "final_oracle" =>
            /\ Last(messages) = [role |-> "system",
                                 content |-> [kind |-> "text", text |-> MaxTurnsInstruction]]
            /\ SubSeq(sent, 1, Len(messages)) = messages
            /\ \A i \in 1..Len(plans) : IsContinuation(plans[i])
            /\ Len(plans) = MaxTurns
            /\ surfaced = <<>>)
    /\ (outcome = "summary" =>
            /\ pc = "input"
            /\ finalCalls = 1
            /\ loopCalls = MaxTurns
            /\ Len(finalPlans) = 1
            /\ surfaced = << [label |-> "Final Summary",
                              text |-> IF finalPlans[1].final_analysis = Absent
                                       THEN "No summary provided."
                                       ELSE finalPlans[1].final_analysis] >>)

C2_Witness ==
    /\ outcome = "summary"
    /\ finalPlans[1].final_analysis = Absent
    /\ surfaced[1].text = "No summary provided."

\* C3: a plan with neither a final_analysis nor a usable query aborts the
\* investigation: no query is dispatched for it, the number of executed
\* queries stays what it was, no further oracle call is made (the forced
\* call included), and the user is told that no further action was taken.
C3_UnusablePlanAborts ==
    /\ [](Len(plans) > 0 /\ IsUnusable(Last(plans)) =>
            /\ outcome = "abort"
            /\ pc = "input"
            /\ payload = NoPayload
            /\ Len(executed) = Len(plans) - 1
            /\ loopCalls = Len(plans)
            /\ finalCalls = 0
            /\ surfaced = << [label |-> "Final Analysis",
                              text |-> "No further action taken."] >>)
    /\ [][Len(plans') = Len(plans) + 1 /\ IsUnusable(Last(plans')) =>
            /\ executed' = executed
            /\ loopCalls' = loopCalls
            /\ finalCalls' = finalCalls]_vars

C3_Witness ==
    /\ outcome = "abort"
    /\ Len(plans) = 2
    /\ Last(plans).query = QDict(Absent, "t1", "t2")
    /\ Len(executed) = 1

\* C4 as stated: a plan with neither query nor final_analysis leaves the
\* investigation running, so that while turn < max_turns the oracle is
\* called again.
C4_InvalidPlanKeepsLooping ==
    Len(plans) > 0 /\ Last(plans).final_analysis = Absent
                   /\ Last(plans).query.kind = "absent" /\ turn < MaxTurns
        => outcome = "running"

\* C4, amended: for a plan with neither query nor final_analysis an
\* observation describing the defect is appended after the stored plan and
\* one turn has been consumed, but the investigation ends there: the oracle
\* is not called again, even while turn < max_turns.
C4_InvalidPlanObservedThenEnds ==
    Len(plans) > 0 /\ Last(plans).final_analysis = Absent
                   /\ Last(plans).query.kind = "absent"
        => /\ Len(messages) = 2 * Len(plans) + 2
           /\ Last(messages) =
                [role |-> "system",
                 content |-> [kind |-> "text",
                              text |-> "AI did not provide a valid query. Ending investigation."]]
           /\ messages[Len(messages) - 1] =
                [role |-> "assistant",
                 content |-> [kind |-> "json", layout |-> "dumps", plan |-> Last(plans)]]
           /\ turn = Len(plans)
           /\ loopCalls = turn
           /\ finalCalls = 0
           /\ outcome = "abort"
           /\ pc = "input"

C4_Witness ==
    /\ outcome = "abort"
    /\ Len(plans) = 1
    /\ Last(plans).query.kind = "absent"
    /\ turn = 1
    /\ turn < MaxTurns

\* C5: every query sent to the event query service has start <= end.
C5_StartNotAfterEnd ==
    \A i \in 1..Len(executed) :
        TimeIndex(executed[i].start) <= TimeIndex(executed[i].end)

\* C6: when the oracle's response does not parse, the plan acted on has the
\* 'not valid JSON' error text as its final_analysis; the investigation
\* concludes with that text surfaced, no query is executed for that turn or
\* later, the oracle is not called again, and the process is back at its
\* prompt for the next request.
C6_UnparseableConcludes ==
    Len(lastRaw) = 1 /\ ~ lastRaw[1].parses
        => /\ Last(plans).final_analysis =
                "Error: The AI returned a response that was not valid JSON."
           /\ outcome = "conclude"
           /\ pc = "input"
           /\ surfaced = << [label |-> "Final Analysis",
                             text |-> "Error: The AI returned a response that was not valid JSON."] >>
           /\ payload = NoPayload
           /\ Len(executed) = Len(plans) - 1
           /\ loopCalls = Len(plans)
           /\ finalCalls = 0
           /\ sent = <<>>

C6_Witness ==
    /\ Len(lastRaw) = 1
    /\ ~ lastRaw[1].parses
    /\ Len(plans) = 2
    /\ outcome = "conclude"
    /\ pc = "input"

\* C7: during an investigation the stored transcript only grows at its end;
\* every oracle call is given the whole stored transcript followed by one
\* current-time system message; that message is never in the stored
\* transcript.
C7_TranscriptAppendOnly ==
    /\ [][pc # "input" => IsPrefix(messages, messages')]_vars
    /\ [](pc \in {"oracle", "final_oracle"} =>
            /\ Len(sent) = Len(messages) + 1
            /\ SubSeq(sent, 1, Len(messages)) = messages
            /\ Last(sent).role = "system"
            /\ Last(sent).content.kind = "time")
    /\ [](\A i \in 1..Len(messages) : messages[i].content.kind # "time")

C7_Witness ==
    /\ pc = "oracle"
    /\ Len(messages) = 4
    /\ Len(sent) = 5
    /\ sent[5].content.kind = "time"

\* C8: turn is 0 when an investigation starts and always equals the number
\* of oracle calls made inside the loop, the one in progress included;
\* the forced summarization call does not change it.
C8_TurnCountsLoopCalls ==
    /\ [](turn = loopCalls)
    /\ [][outcome # "running" /\ outcome' = "running" => turn' = 0]_vars
    /\ [][finalCalls' = finalCalls + 1 => turn' = turn /\ loopCalls' = loopCalls]_vars
    /\ [][pc = "final_oracle" /\ pc' = "input" => turn' = turn]_vars

C8_Witness ==
    /\ pc = "oracle"
    /\ turn = 2
    /\ loopCalls = 2

\* C9: turn never exceeds max_turns, at most max_turns queries are
\* executed and at most max_turns + 1 oracle calls are made.
C9_Bounded ==
    /\ turn <= MaxTurns
    /\ Len(executed) <= MaxTurns
    /\ loopCalls + finalCalls <= MaxTurns + 1

C9_Witness ==
    /\ turn = MaxTurns
    /\ Len(executed) = MaxTurns
    /\ loopCalls + finalCalls = MaxTurns + 1

\* C10: oracle calls and query executions alternate.  A query is in flight
\* only after the plan that asked for it was stored as the last assistant
\* message, and carries that plan's sql, start and end; while the oracle is
\* being called no query is in flight and every executed query has its
\* observation stored; each plan is followed by at most one execution.
NumObservations ==
    Cardinality({ i \in 1..Len(messages) : messages[i].content.kind = "observation" })

C10_Alternation ==
    /\ (pc = "query" =>
            /\ sent = <<>>
            /\ Len(executed) = Len(plans)
            /\ payload = Last(executed)
            /\ Last(messages) =
                 [role |-> "assistant",
                  content |-> [kind |-> "json", layout |-> "dumps", plan |-> Last(plans)]]
            /\ payload = [start |-> Last(plans).query.start,
                          end |-> Last(plans).query.end,
                          query |-> Last(plans).query.sql]
            /\ NumObservations = Len(executed) - 1)
    /\ (pc \in {"oracle", "final_oracle"} =>
            /\ payload = NoPayload
            /\ Len(executed) = Len(plans)
            /\ NumObservations = Len(executed)
            /\ (pc = "oracle" /\ Len(executed) > 0 =>
                    Last(messages).content.kind = "observation"))
    /\ Len(executed) \in {Len(plans) - 1, Len(plans)}

C10_Witness ==
    /\ pc = "query"
    /\ Len(executed) = 2
    /\ payload = [start |-> "t2", end |-> "t1", query |-> "q1"]
    /\ Last(messages).role = "assistant"

\* The transcript is: instruction, request, then for the i-th plan the
\* assistant message and, if its query was executed, the observation.
AssistantAt(i) == messages[2 * i + 1]
ObservationAt(i) == messages[2 * i + 2]

\* C11: a continuation plan whose query has a non-empty sql but no start
\* and/or no end is dispatched all the same, with the missing end and start
\* filled in, and the given ones kept.
C11_MissingWindowDefaulted ==
    Len(plans) > 0 /\ IsContinuation(Last(plans))
                   /\ (Last(plans).query.start = Absent \/ Last(plans).query.end = Absent)
        => /\ pc # "crashed"
           /\ Len(executed) = Len(plans)
           /\ Last(executed).query = Last(plans).query.sql
           /\ Last(executed).start # Absent
           /\ Last(executed).end # Absent
           /\ (Last(plans).query.end # Absent =>
                    Last(executed).end = Last(plans).query.end)
           /\ (Last(plans).query.start # Absent =>
                    Last(executed).start = Last(plans).query.start)

\* C12: whatever plan the oracle returns and whatever the query service
\* does, the process is never ended by it: an investigation that is over
\* ended as a conclusion, an abort or the forced summary, and the request
\* loop is at its prompt again.
C12_NoFailureEscapes ==
    /\ pc # "crashed"
    /\ (outcome \notin {"none", "running"} =>
            /\ outcome \in {"conclude", "abort", "summary"}
            /\ pc = "input")

C14_EmptySentinelAsStated ==
    \A i \in 1..Len(answers) :
        ~ answers[i].failed /\ answers[i].rows = 0 =>
            ObservationAt(i).content.summary =
                [kind |-> "empty",
                 text |-> "Query returned no results (an empty list)."]

\* C14, amended: for a successful result without rows (results absent or
\* an empty list) the summary is exactly the fixed string
\* "Query returned no results (an empty list: [])." with no row count, no
\* columns and no first row.
C14_EmptySentinel ==
    \A i \in 1..Len(answers) :
        ~ answers[i].failed /\ answers[i].rows = 0 =>
            ObservationAt(i).content.summary =
                [kind |-> "empty",
                 text |-> "Query returned no results (an empty list: [])."]

C14_Witness ==
    /\ Len(answers) = 2
    /\ answers[1] = [failed |-> FALSE, rows |-> 2]
    /\ answers[2] = [failed |-> FALSE, rows |-> 0]
    /\ ObservationAt(2).content.summary.kind = "empty"

\* C15: the assistant message stored for a plan is identical to the payload
\* the oracle produced for it.
C15_RoundTrip ==
    Len(lastRaw) = 1 /\ lastRaw[1].parses =>
        AssistantAt(Len(plans)).content =
            [kind |-> "json", layout |-> lastRaw[1].layout, plan |-> lastRaw[1].plan]

\* C16: every investigation starts with turn 0, the placeholder hypothesis
\* and a transcript of exactly the instruction and its own request, whatever
\* the investigation before it left behind; all through it the transcript
\* holds its own request, its own plans and the observations made for them,
\* and turn and hypothesis come from its own plans only.
C16_Isolated ==
    /\ [][pc = "input" /\ pc' = "loop" =>
            /\ turn' = 0
            /\ hypothesis' = "Initial hypothesis pending."
            /\ messages' =
                 << [role |-> "system", content |-> [kind |-> "text", text |-> SYSTEM_PROMPT]],
                    [role |-> "user", content |-> [kind |-> "text", text |-> user_request']] >>]_vars
    /\ [](outcome # "none" =>
            /\ Len(messages) >= 2
            /\ messages[1] = [role |-> "system",
                              content |-> [kind |-> "text", text |-> SYSTEM_PROMPT]]
            /\ messages[2] = [role |-> "user",
                              content |-> [kind |-> "text", text |-> user_request]]
            /\ \A i \in 3..Len(messages) : messages[i].role # "user"
            /\ \A i \in 1..Len(plans) :
                    /\ AssistantAt(i).role = "assistant"
                    /\ AssistantAt(i).content.plan = plans[i]
            /\ Len(messages) <= 2 * Len(plans) + 3
            /\ turn <= Len(plans) + 1
            /\ hypothesis \in {"Initial hypothesis pending."}
                                \cup { plans[i].hypothesis : i \in 1..Len(plans) })

C16_Witness ==
    /\ pc = "loop"
    /\ earlier \in Requests
    /\ earlier # user_request
    /\ turn = 0
    /\ hypothesis = "Initial hypothesis pending."
    /\ Len(messages) = 2

\* C17: once a plan received inside the loop has a final_analysis, the
\* investigation is over: no oracle call and no query is in flight or made
\* afterwards, that plan's assistant message stays the last message, and
\* no forced call is made -- also when the concluding or aborting plan is
\* the one of turn max_turns.
C17_ConcludeIsTerminal ==
    /\ (Len(plans) > 0 /\ Last(plans).final_analysis # Absent =>
            /\ outcome = "conclude"
            /\ pc = "input"
            /\ sent = <<>>
            /\ payload = NoPayload
            /\ loopCalls = Len(plans)
            /\ finalCalls = 0
            /\ finalPlans = <<>>
            /\ Len(executed) = Len(plans) - 1
            /\ Len(messages) = 2 * Len(plans) + 1
            /\ Last(messages).role = "assistant"
            /\ Last(messages).content.plan = Last(plans))
    /\ (outcome \in {"conclude", "abort"} =>
            /\ pc = "input"
            /\ finalCalls = 0
            /\ loopCalls = Len(plans)
            /\ turn = Len(plans))

C17_Witness ==
    /\ outcome = "conclude"
    /\ turn = MaxTurns
    /\ Len(executed) = MaxTurns - 1
    /\ finalCalls = 0
    /\ pc = "input"

\* C18: when every oracle call and every query call returns, an
\* investigation that is running eventually is finished: concluded, aborted
\* or summarised by the forced call.
C18_EveryInvestigationFinishes ==
    (outcome = "running") ~> (outcome \in {"conclude", "abort", "summary"})

\* The hypothesis of the latest of the plans that has one.
RECURSIVE LatestHypothesis(_)
LatestHypothesis(ps) ==
    IF ps = <<>> THEN "Initial hypothesis pending."
    ELSE IF Last(ps).hypothesis # Absent THEN Last(ps).hypothesis
    ELSE LatestHypothesis(SubSeq(ps, 1, Len(ps) - 1))

\* C19: the state's hypothesis is that of the most recent plan received in
\* the loop that supplied one, the placeholder if none did; a plan without
\* one and the answer to the forced call leave it as it is.
C19_HypothesisIsLatest ==
    /\ [](outcome # "none" => hypothesis = LatestHypothesis(plans))
    /\ [][pc = "final_oracle" => hypothesis' = hypothesis]_vars

C19_Witness ==
    /\ outcome = "summary"
    /\ MaxTurns = Len(plans)
    /\ plans[Len(plans) - 1].hypothesis = "h1"
    /\ Last(plans).hypothesis = Absent
    /\ finalPlans[1].hypothesis = "h2"
    /\ hypothesis = "h1"

\* C20: a plan that has both a final_analysis and a query is a conclusion:
\* its query is not sent, its final_analysis is surfaced and the
\* investigation ends.
C20_BothMeansConclude ==
    Len(plans) > 0 /\ Last(plans).final_analysis # Absent
                   /\ Last(plans).query.kind # "absent"
        => /\ outcome = "conclude"
           /\ pc = "input"
           /\ payload = NoPayload
           /\ Len(executed) = Len(plans) - 1
           /\ \A i \in 1..Len(executed) :
                 executed[i] = [start |-> plans[i].query.start,
                                end |-> plans[i].query.end,
                                query |-> plans[i].query.sql]
           /\ surfaced = << [label |-> "Final Analysis",
                             text |-> Last(plans).final_analysis] >>

C20_Witness ==
    /\ Len(plans) = 1
    /\ plans[1].final_analysis = "fa2"
    /\ plans[1].query = QDict("q1", "t1", "t2")
    /\ executed = <<>>
    /\ surfaced[1].text = "fa2"

====
